---------------------------- MODULE Spec2Model ----------------------------
(***************************************************************************)
(* Sale / Payment / Refund ledger of inventoryApp (views.py, models.py).   *)
(*                                                                         *)
(* The database is the record db: one sequence per table, a row's id is   *)
(* its index.  Every view is a call frame (a record p) that is advanced   *)
(* one database statement at a time by Step; the views run without a      *)
(* transaction, so every statement is committed when it is executed and   *)
(* an exception caught by the view's "except Exception" undoes nothing.   *)
(* Run executes a frame to its end: the sequential specifications take a  *)
(* whole request as one action, the concurrent ones interleave the Steps  *)
(* of two requests.                                                       *)
(*                                                                         *)
(* Money is counted in minor units (integers): every amount the model     *)
(* feeds in has at most two fraction digits, so Decimal arithmetic and    *)
(* the DecimalField(decimal_places=2) columns are exact.                  *)
(***************************************************************************)
EXTENDS Integers, Sequences, FiniteSets, TLC

VARIABLES db, procs, last

vars == <<db, procs, last>>

-----------------------------------------------------------------------------
(* Bounds of the model. *)

\* number of products in the catalog
NumProducts == 1
\* stock of every product in the initial state
InitQty == 2
\* most Sale rows a behaviour creates
MaxSales == 1
\* most lines of a cart in the specification of the sales alone
MaxLines == 2
\* most RefundRequest rows a behaviour creates
MaxRequests == 1
\* size of the pool the random invoice suffix is drawn from
NumInvoices == 1
\* most Sale rows in the specification of the sales alone; its invoice pool
\* has as many numbers, so that a generated number may collide
MaxCartSales == 2
\* most SavedCart rows a behaviour creates
MaxSavedCarts == 1

ProductIds == 1..NumProducts
Invoices == 1..NumInvoices

\* unit price of the catalog's products, in minor units
UnitPrice == 2

\* request.user: role 'admin' or another role (models.py User.role)
Actors == {"admin", "staff"}

-----------------------------------------------------------------------------
(* Rows and frames. *)

NullSale ==
    [invoice_number |-> 0, customer_name |-> "", customer_phone |-> "",
     subtotal |-> 0, discount |-> 0, total |-> 0, amount_paid |-> 0,
     balance |-> 0, payment_status |-> "paid"]

NullRequest ==
    [sale |-> 0, sale_item |-> 0, customer_name |-> "", customer_phone |-> "",
     amount |-> 0, original_amount |-> 0, status |-> "pending",
     approved_by |-> "", approved_date |-> FALSE, created_by |-> "",
     refund_processed |-> FALSE]

EmptyDb ==
    [products |-> [q \in ProductIds |-> InitQty],
     sales |-> << >>, items |-> << >>, payments |-> << >>,
     movements |-> << >>, requests |-> << >>, refunds |-> << >>,
     pending_carts |-> << >>, saved_carts |-> {}, cart_seq |-> 0,
     catalog |-> [q \in ProductIds |-> 0]]

\* a call frame: the request's inputs, the view's local variables, where it is
Frame ==
    [op |-> "idle", pc |-> "done", actor |-> "staff",
     items |-> << >>, has_discount |-> FALSE, discount |-> 0,
     amount |-> 0, method |-> "cash", customer_name |-> "", customer_phone |-> "",
     invoice |-> 0, sale_id |-> 0, item_id |-> 0, req_id |-> 0,
     saved_cart_id |-> 0, saved_cart |-> 0,
     product_id |-> 0, name |-> 0, quantity |-> 0, cat |-> 0,
     i |-> 1, sale |-> NullSale, rr |-> NullRequest, qty |-> 0,
     subtotal |-> 0, total |-> 0,
     fault |-> "none", result |-> "none", raised |-> "none"]

\* the outcome of the last finished request
NoCall == [op |-> "none", id |-> 0, req |-> 0, result |-> "none", raised |-> "none"]

\* a reference column: '' | the invoice number | REFUND-{request id}
NoRef == [kind |-> "", n |-> 0]
InvRef(n) == [kind |-> "INV", n |-> n]
RefundRef(n) == [kind |-> "REFUND", n |-> n]

-----------------------------------------------------------------------------
(* models.py *)

\* Sale.save as first written (models.py 124-136), overridden by the later
\* definition: the balance is not clamped
SaleSaveUnclamped(s) ==
    LET bal == s.total - s.amount_paid
        st == IF bal <= 0 THEN "paid" ELSE IF bal < s.total THEN "partial" ELSE "unpaid"
    IN [s EXCEPT !.balance = bal, !.payment_status = st]

\* Sale.save (models.py 146-175): balance and payment_status are recomputed
\* from total and amount_paid on every write of a Sale row
SaleSave(s) ==
    LET bal0 == s.total - s.amount_paid
        bal == IF bal0 < 0 THEN 0 ELSE bal0
        st == IF bal <= 0 THEN "paid" ELSE IF bal < s.total THEN "partial" ELSE "unpaid"
    IN [s EXCEPT !.balance = bal, !.payment_status = st]

\* Sale.is_debtor (models.py 138-140)
IsDebtor(s) == s.balance > 0

\* the aggregate Sum('amount') over the sale's Payments that are, or are
\* not, of method 'refund' (models.py 184-191); no row gives 0
RECURSIVE SumByMethod(_, _, _)
SumByMethod(payments, sale_id, refund) ==
    IF payments = << >> THEN 0
    ELSE (IF /\ Head(payments).sale = sale_id
             /\ (Head(payments).payment_method = "refund") = refund
          THEN Head(payments).amount ELSE 0)
         + SumByMethod(Tail(payments), sale_id, refund)

\* net_amount_paid without the lines 197-198
NetAmountPaidUnclamped(payments, sale_id) ==
    SumByMethod(payments, sale_id, FALSE) + SumByMethod(payments, sale_id, TRUE)

\* Sale.net_amount_paid (models.py 177-200)
NetAmountPaid(payments, sale_id) ==
    LET non_refund_payments == SumByMethod(payments, sale_id, FALSE)
        refunds == SumByMethod(payments, sale_id, TRUE)
        net_paid == non_refund_payments + refunds
    IN IF net_paid < 0 THEN 0 ELSE net_paid

\* Sale.is_real_debtor (models.py 202-205)
IsRealDebtor(d, sale_id) == NetAmountPaid(d.payments, sale_id) < d.sales[sale_id].total

\* SaleItem.save (models.py 220-222)
SaleItemTotal(price, quantity, discount) == (price * quantity) - discount

\* Refund.save (models.py 381-392): a negative amount is stored as 0
RefundSaveAmount(a) == IF a < 0 THEN 0 ELSE a

-----------------------------------------------------------------------------
(* The views' common endings. *)

\* a view returns (a rejection or its normal end)
Finish(st, result) == [st EXCEPT !.p.pc = "done", !.p.result = result]

\* an exception reaches the view's "except Exception": an error is reported
\* and nothing that was written is undone
Raise(st, where) ==
    [st EXCEPT !.p.pc = "done", !.p.result = "error", !.p.raised = where]

Goto(st, pc) == [st EXCEPT !.p.pc = pc]

-----------------------------------------------------------------------------
(* views.py process_sale *)

RECURSIVE SumPriceQty(_)
SumPriceQty(items) ==
    IF items = << >> THEN 0
    ELSE Head(items).price * Head(items).quantity + SumPriceQty(Tail(items))

RECURSIVE SumDiscount(_)
SumDiscount(items) ==
    IF items = << >> THEN 0 ELSE Head(items).discount + SumDiscount(Tail(items))

\* the staff filter of line 104 left out: any staff member's saved cart
SavedCartGetAnyStaff(d, saved_cart_id, staff) ==
    IF \E c \in d.saved_carts : c.id = saved_cart_id THEN saved_cart_id ELSE 0

\* lines 99-106: SavedCart.objects.get(id=saved_cart_id, staff=request.user),
\* None (0) when it does not exist or is not sent
SavedCartGet(d, saved_cart_id, staff) ==
    IF \E c \in d.saved_carts : c.id = saved_cart_id /\ c.staff = staff
    THEN saved_cart_id ELSE 0

\* the branch of line 123 left out: the line discounts are always used
SaleCheckLineDiscounts(st) ==
    LET saved_cart == SavedCartGet(st.db, st.p.saved_cart_id, st.p.actor) IN
    IF st.p.items = << >> THEN Finish(st, "no_items")
    ELSE LET subtotal == SumPriceQty(st.p.items)
             sale_discount == SumDiscount(st.p.items)
         IN [st EXCEPT !.p.subtotal = subtotal, !.p.discount = sale_discount,
                       !.p.total = subtotal - sale_discount,
                       !.p.saved_cart = saved_cart,
                       !.p.i = 1, !.p.pc = "s_validate"]

\* lines 99-131: the saved cart the sale was loaded from (if it is the
\* caller's), the empty-cart check and the totals; the customer fields and
\* amount_paid are taken as sent
SaleCheck(st) ==
    LET saved_cart == SavedCartGet(st.db, st.p.saved_cart_id, st.p.actor) IN
    IF st.p.items = << >> THEN Finish(st, "no_items")
    ELSE LET subtotal == SumPriceQty(st.p.items)
             sale_discount == IF st.p.has_discount THEN st.p.discount
                              ELSE SumDiscount(st.p.items)
         IN [st EXCEPT !.p.subtotal = subtotal, !.p.discount = sale_discount,
                       !.p.total = subtotal - sale_discount,
                       !.p.saved_cart = saved_cart,
                       !.p.i = 1, !.p.pc = "s_validate"]

\* the comparison of line 137 left out: only the product's existence is checked
SaleValidateNoStock(st) ==
    LET item == st.p.items[st.p.i] IN
    IF item.product_id \notin DOMAIN st.db.products
    THEN Finish(st, "product_not_found")
    ELSE IF st.p.i < Len(st.p.items)
    THEN [st EXCEPT !.p.i = st.p.i + 1]
    ELSE [st EXCEPT !.p.i = 1, !.p.pc = "s_create"]

\* lines 134-143: one pass of the stock validation loop
SaleValidate(st) ==
    LET item == st.p.items[st.p.i] IN
    IF item.product_id \notin DOMAIN st.db.products
    THEN Finish(st, "product_not_found")
    ELSE IF st.db.products[item.product_id] < item.quantity
    THEN Finish(st, "insufficient_stock")
    ELSE IF st.p.i < Len(st.p.items)
    THEN [st EXCEPT !.p.i = st.p.i + 1]
    ELSE [st EXCEPT !.p.i = 1, !.p.pc = "s_create"]

\* lines 145-169: Sale.objects.create; invoice_number is unique (models.py 100)
SaleCreate(st) ==
    IF \E k \in 1..Len(st.db.sales) : st.db.sales[k].invoice_number = st.p.invoice
    THEN Raise(st, "s_create")
    ELSE LET row == SaleSave([invoice_number |-> st.p.invoice,
                              customer_name |-> st.p.customer_name,
                              customer_phone |-> st.p.customer_phone,
                              subtotal |-> st.p.subtotal,
                              discount |-> st.p.discount,
                              total |-> st.p.total,
                              amount_paid |-> st.p.amount,
                              balance |-> st.p.total - st.p.amount,
                              payment_status |-> "paid"])
         IN [st EXCEPT !.db.sales = Append(@, row),
                       !.p.sale_id = Len(st.db.sales) + 1,
                       !.p.sale = row, !.p.i = 1, !.p.pc = "s_get"]

\* line 173: Product.objects.get in the write loop
SaleGet(st) ==
    LET item == st.p.items[st.p.i] IN
    [st EXCEPT !.p.qty = st.db.products[item.product_id],
               !.p.cat = st.db.catalog[item.product_id], !.p.pc = "s_item"]

\* lines 175-185: SaleItem.objects.create; SaleItem.save multiplies the raw
\* JSON price by the quantity and subtracts the discount, which raises a
\* TypeError for a price sent as a string (Decimal(str(..)) accepted it above)
SaleItemCreate(st) ==
    LET item == st.p.items[st.p.i] IN
    IF item.price_is_str THEN Raise(st, "s_item")
    ELSE [st EXCEPT !.db.items = Append(@,
                        [sale |-> st.p.sale_id, product |-> item.product_id,
                         quantity |-> item.quantity, price |-> item.price,
                         discount |-> item.discount,
                         total |-> SaleItemTotal(item.price, item.quantity, item.discount)]),
                    !.p.pc = "s_stock"]

\* lines 188-189: product.quantity -= item['quantity']; product.save()
\* writes every column of the Product read at line 173 (Product.save,
\* models.py 72-82, passes no update_fields)
SaleStock(st) ==
    LET item == st.p.items[st.p.i] IN
    [st EXCEPT !.db.products[item.product_id] = st.p.qty - item.quantity,
               !.db.catalog[item.product_id] = st.p.cat,
               !.p.pc = "s_move"]

\* lines 192-199: the StockMovement of the line, then the next line
SaleMove(st) ==
    LET item == st.p.items[st.p.i]
        st1 == [st EXCEPT !.db.movements = Append(@,
                    [product |-> item.product_id, movement_type |-> "out",
                     quantity |-> item.quantity, reference |-> InvRef(st.p.invoice)])]
    IN IF st.p.i < Len(st.p.items)
       THEN [st1 EXCEPT !.p.i = st.p.i + 1, !.p.pc = "s_get"]
       ELSE Goto(st1, "s_pay")

\* lines 202-210: the initial Payment, only for a positive amount
SalePay(st) ==
    IF st.p.amount > 0
    THEN [st EXCEPT !.db.payments = Append(@,
                        [sale |-> st.p.sale_id, amount |-> st.p.amount,
                         payment_method |-> st.p.method, reference |-> NoRef]),
                    !.p.pc = "s_notify"]
    ELSE Goto(st, "s_notify")

\* PendingCart.objects.filter(staff=request.user).delete(): the rows left
NotOfStaff(rows, staff) == SelectSeq(rows, LAMBDA s : s # staff)

\* lines 213-252: the caller's pending cart and the saved cart the sale was
\* loaded from are deleted, then the notifications (through the
\* application's own User model) and the success response
SaleNotify(st) ==
    Finish([st EXCEPT !.db.pending_carts = NotOfStaff(@, st.p.actor),
                      !.db.saved_carts = {c \in @ : c.id # st.p.saved_cart}], "ok")

-----------------------------------------------------------------------------
(* views.py save_pending_cart, save_cart *)

\* lines 777-798
PendingCartCheck(st) ==
    IF st.p.items = << >> THEN Finish(st, "cart_empty") ELSE Goto(st, "k_delete")

\* line 801: PendingCart.objects.filter(staff=request.user).delete()
PendingCartDelete(st) ==
    [st EXCEPT !.db.pending_carts = NotOfStaff(@, st.p.actor), !.p.pc = "k_create"]

\* lines 804-809: PendingCart.objects.create; staff is unique (models.py
\* 274), a second row of the same staff member raises IntegrityError
PendingCartCreate(st) ==
    IF \E n \in 1..Len(st.db.pending_carts) : st.db.pending_carts[n] = st.p.actor
    THEN Raise(st, "k_create")
    ELSE Finish([st EXCEPT !.db.pending_carts = Append(@, st.p.actor)], "ok")

\* lines 865-878
SaveCartCheck(st) ==
    IF st.p.items = << >> THEN Finish(st, "cart_empty") ELSE Goto(st, "v_create")

\* lines 881-891: SavedCart.objects.create
SaveCartCreate(st) ==
    Finish([st EXCEPT !.db.cart_seq = @ + 1,
                      !.db.saved_carts = @ \cup {[id |-> st.db.cart_seq + 1,
                                                    staff |-> st.p.actor]}], "ok")

-----------------------------------------------------------------------------
(* views.py edit_product, delete_product.  db.catalog[q] stands for the
   columns of Product q other than quantity (name, price, ...). *)

\* line 553: get_object_or_404(Product, id=pk)
EditProductGet(st) ==
    IF st.p.product_id \notin DOMAIN st.db.products THEN Finish(st, "not_found")
    ELSE Goto(st, "u_save")

\* lines 557-631: every column, quantity included, is set from the form and
\* the row is written (a row deleted meanwhile is inserted again by save)
EditProductSave(st) ==
    LET q == st.p.product_id
        ids == DOMAIN st.db.products \cup {q}
    IN Finish([st EXCEPT
                 !.db.products = [r \in ids |-> IF r = q THEN st.p.quantity
                                                 ELSE st.db.products[r]],
                 !.db.catalog = [r \in ids |-> IF r = q THEN st.p.name
                                                ELSE st.db.catalog[r]]], "ok")

\* line 660: get_object_or_404(Product, id=pk)
DeleteProductGet(st) ==
    IF st.p.product_id \notin DOMAIN st.db.products THEN Finish(st, "not_found")
    ELSE Goto(st, "x_delete")

\* the rows of a table that are not StockMovements of product q
NotOfProduct(rows, q) == SelectSeq(rows, LAMBDA m : m.product # q)

\* lines 662-668: product.delete(); StockMovement.product is on_delete
\* CASCADE (models.py 250), SaleItem.product is SET_NULL (models.py 210)
DeleteProductDelete(st) ==
    LET q == st.p.product_id
        ids == DOMAIN st.db.products \ {q}
    IN Finish([st EXCEPT
                 !.db.products = [r \in ids |-> st.db.products[r]],
                 !.db.catalog = [r \in ids |-> st.db.catalog[r]],
                 !.db.movements = NotOfProduct(st.db.movements, q),
                 !.db.items = [k \in DOMAIN st.db.items |->
                                 IF st.db.items[k].product = q
                                 THEN [st.db.items[k] EXCEPT !.product = 0]
                                 ELSE st.db.items[k]]], "ok")

-----------------------------------------------------------------------------
(* views.py record_payment *)

\* line 695: get_object_or_404(Sale, id=sale_id)
PayGet(st) ==
    IF st.p.sale_id \notin 1..Len(st.db.sales) THEN Finish(st, "not_found")
    ELSE [st EXCEPT !.p.sale = st.db.sales[st.p.sale_id], !.p.pc = "p_check"]

\* the ceiling of lines 708-710 left out: only the sign is checked
PayCheckNoCeiling(st) ==
    IF st.p.amount <= 0 THEN Finish(st, "invalid_amount") ELSE Goto(st, "p_create")

\* lines 704-710
PayCheck(st) ==
    IF st.p.amount <= 0 THEN Finish(st, "invalid_amount")
    ELSE IF st.p.amount > st.p.sale.balance THEN Finish(st, "exceeds_balance")
    ELSE Goto(st, "p_create")

\* lines 713-720
PayCreate(st) ==
    [st EXCEPT !.db.payments = Append(@,
                   [sale |-> st.p.sale_id, amount |-> st.p.amount,
                    payment_method |-> st.p.method, reference |-> NoRef]),
               !.p.pc = "p_save"]

\* lines 723-731: the in-memory Sale is updated and written back whole
PaySave(st) ==
    LET s == [st.p.sale EXCEPT !.amount_paid = @ + st.p.amount]
        row == SaleSave(s)
    IN [st EXCEPT !.db.sales[st.p.sale_id] = row, !.p.sale = row,
                  !.p.pc = "p_notify"]

\* lines 734-755: line 746 imports django.contrib.auth.models.User, which is
\* not the application's User model (models.py 9) and has no manager and no
\* 'role' field to filter on: line 747 raises after the writes
PayNotify(st) == Raise(st, "p_notify")

-----------------------------------------------------------------------------
(* Customer matching (views.py 1300-1303, 1490-1500): name or phone, iexact. *)

\* case folding of the customer strings the model uses
Lower(s) == CASE s = "Ann" -> "ann" [] s = "ANN" -> "ann" [] OTHER -> s

IExact(a, b) == Lower(a) = Lower(b)

\* role check of approve and decline (views.py 1470, 1607)
IsAdmin(actor) == actor = "admin"

CustomerSales(d, name, phone) ==
    {k \in 1..Len(d.sales) :
        \/ IExact(d.sales[k].customer_name, name)
        \/ IExact(d.sales[k].customer_phone, phone)}

\* order_by('-created_at'): the most recent row is the one inserted last
MostRecent(ids) == CHOOSE k \in ids : \A j \in ids : j <= k

-----------------------------------------------------------------------------
(* views.py create_refund_request *)

\* lines 1249-1261
CreateParse(st) ==
    IF st.p.amount <= 0 THEN Finish(st, "invalid_amount") ELSE Goto(st, "c_sale")

\* lines 1263-1317: the sale (and item) the request is made against
CreateSale(st) ==
    LET d == st.db
        a == st.p.amount
    IN
    IF st.p.sale_id # 0
    THEN IF st.p.sale_id \notin 1..Len(d.sales) THEN Finish(st, "sale_not_found")
         ELSE LET st1 == [st EXCEPT !.p.sale = d.sales[st.p.sale_id], !.p.pc = "c_insert"] IN
              IF st.p.item_id # 0
              THEN IF \/ st.p.item_id \notin 1..Len(d.items)
                      \/ d.items[st.p.item_id].sale # st.p.sale_id
                   THEN Finish(st, "item_not_found")
                   ELSE IF a > d.items[st.p.item_id].total
                   THEN Finish(st, "exceeds_item_total")
                   ELSE st1
              ELSE IF a > d.sales[st.p.sale_id].amount_paid
                   THEN Finish(st, "exceeds_paid")
                   ELSE st1
    ELSE IF st.p.customer_name = "" \/ st.p.customer_phone = ""
         THEN Finish(st, "customer_required")
         ELSE LET found == CustomerSales(d, st.p.customer_name, st.p.customer_phone)
                  enough == {k \in found : d.sales[k].amount_paid >= a}
              IN IF found = {} THEN Finish(st, "no_sales")
                 ELSE IF enough = {} THEN Finish(st, "no_sufficient_sale")
                 ELSE [st EXCEPT !.p.sale_id = MostRecent(enough),
                                 !.p.sale = d.sales[MostRecent(enough)],
                                 !.p.item_id = 0,
                                 !.p.pc = "c_insert"]

\* lines 1320-1328: RefundRequest.objects.create (original_amount still NULL,
\* written 0 here: a ceiling is never 0, the amount is positive and below it)
CreateInsert(st) ==
    LET name == IF st.p.customer_name # "" THEN st.p.customer_name
                ELSE IF st.p.sale.customer_name # "" THEN st.p.sale.customer_name
                ELSE "Unknown Customer"
        phone == IF st.p.customer_phone # "" THEN st.p.customer_phone
                 ELSE st.p.sale.customer_phone
        row == [sale |-> st.p.sale_id, sale_item |-> st.p.item_id,
                customer_name |-> name, customer_phone |-> phone,
                amount |-> st.p.amount, original_amount |-> 0,
                status |-> "pending", approved_by |-> "", approved_date |-> FALSE,
                created_by |-> st.p.actor, refund_processed |-> FALSE]
    IN [st EXCEPT !.db.requests = Append(@, row),
                  !.p.req_id = Len(st.db.requests) + 1,
                  !.p.rr = row, !.p.pc = "c_orig"]

\* original_amount taken from the requested amount instead of the ceiling
CreateOriginalRequested(st) ==
    LET row == [st.p.rr EXCEPT !.original_amount = st.p.amount]
    IN [st EXCEPT !.db.requests[st.p.req_id] = row, !.p.rr = row,
                  !.p.pc = "c_notify"]

\* lines 1330-1335: original_amount, then the row is written back whole
CreateOriginal(st) ==
    LET orig == IF st.p.item_id # 0 THEN st.db.items[st.p.item_id].total
                ELSE st.p.sale.amount_paid
        row == [st.p.rr EXCEPT !.original_amount = orig]
    IN [st EXCEPT !.db.requests[st.p.req_id] = row, !.p.rr = row,
                  !.p.pc = "c_notify"]

\* lines 1337-1358: line 1338 imports django.contrib.auth.models.User (see
\* PayNotify): line 1339 raises after the request is stored
CreateNotify(st) == Raise(st, "c_notify")

-----------------------------------------------------------------------------
(* views.py edit_refund_request *)

\* the creator-or-admin check of line 1436 left out: can_edit alone
EditGetAnyone(st) ==
    IF st.p.req_id \notin 1..Len(st.db.requests) THEN Finish(st, "not_found")
    ELSE LET rr == st.db.requests[st.p.req_id] IN
         IF rr.status # "pending" THEN Finish(st, "forbidden")
         ELSE [st EXCEPT !.p.rr = rr, !.p.pc = "e_validate"]

\* lines 1433-1437: the row, RefundRequest.can_edit (models.py 337-338) and
\* the creator-or-admin check
EditGet(st) ==
    IF st.p.req_id \notin 1..Len(st.db.requests) THEN Finish(st, "not_found")
    ELSE LET rr == st.db.requests[st.p.req_id] IN
         IF rr.status # "pending" \/ (rr.created_by # st.p.actor /\ ~IsAdmin(st.p.actor))
         THEN Finish(st, "forbidden")
         ELSE [st EXCEPT !.p.rr = rr, !.p.pc = "e_validate"]

\* lines 1441-1452: the new fields and the ceiling of the new amount
EditValidate(st) ==
    LET rr == st.p.rr
        a == st.p.amount
    IN IF rr.sale_item # 0 /\ a > st.db.items[rr.sale_item].total
       THEN Finish(st, "exceeds_item_total")
       ELSE IF rr.sale # 0 /\ a > st.db.sales[rr.sale].total
       THEN Finish(st, "exceeds_sale_total")
       ELSE [st EXCEPT !.p.rr = [rr EXCEPT !.customer_name = st.p.customer_name,
                                           !.customer_phone = st.p.customer_phone,
                                           !.amount = a],
                       !.p.pc = "e_save"]

\* lines 1454-1457: the in-memory row is written back whole
EditSave(st) ==
    Finish([st EXCEPT !.db.requests[st.p.req_id] = st.p.rr], "ok")

-----------------------------------------------------------------------------
(* views.py approve_refund_request *)

\* the role check of lines 1470-1472 left out
ApproveAuthOpen(st) == Goto(st, "a_get")

\* lines 1470-1472
ApproveAuth(st) ==
    IF ~IsAdmin(st.p.actor) THEN Finish(st, "forbidden") ELSE Goto(st, "a_get")

\* the guard lines 1476-1482 left out: every request passes
ApproveGetNoGuard(st) ==
    IF st.p.req_id \notin 1..Len(st.db.requests) THEN Finish(st, "not_found")
    ELSE [st EXCEPT !.p.rr = st.db.requests[st.p.req_id], !.p.pc = "a_sale"]

\* lines 1474-1482: the row and the already-processed guards
ApproveGet(st) ==
    IF st.p.req_id \notin 1..Len(st.db.requests) THEN Finish(st, "not_found")
    ELSE LET rr == st.db.requests[st.p.req_id] IN
         IF rr.status # "pending" THEN Finish(st, "already_processed")
         ELSE IF rr.refund_processed THEN Finish(st, "already_processed")
         ELSE [st EXCEPT !.p.rr = rr, !.p.pc = "a_sale"]

\* lines 1484-1511: the sale of the request, read now, and its paid amount
ApproveSale(st) ==
    LET d == st.db
        rr == st.p.rr
        found == CustomerSales(d, rr.customer_name, rr.customer_phone)
        enough == {k \in found : d.sales[k].amount_paid >= rr.amount}
        sid == IF rr.sale # 0 THEN rr.sale
               ELSE IF enough # {} THEN MostRecent(enough)
               ELSE IF found # {} THEN MostRecent(found)
               ELSE 0
    IN IF sid = 0 THEN Finish(st, "no_sale")
       ELSE IF d.sales[sid].amount_paid < rr.amount THEN Finish(st, "insufficient_paid")
       ELSE [st EXCEPT !.p.sale_id = sid, !.p.sale = d.sales[sid], !.p.pc = "a_refund"]

\* Refund.objects.create as if refund_request were a plain ForeignKey
ApproveRefundNotUnique(st) ==
    [st EXCEPT !.db.refunds = Append(@,
                   [sale |-> st.p.sale_id, refund_request |-> st.p.req_id,
                    amount |-> RefundSaveAmount(st.p.rr.amount)]),
               !.p.pc = "a_link"]

\* lines 1513-1521: Refund.objects.create; Refund.refund_request is a
\* OneToOneField (models.py 353), so a second Refund of the request raises
ApproveRefund(st) ==
    IF \E k \in 1..Len(st.db.refunds) : st.db.refunds[k].refund_request = st.p.req_id
    THEN Raise(st, "a_refund")
    ELSE [st EXCEPT !.db.refunds = Append(@,
                        [sale |-> st.p.sale_id, refund_request |-> st.p.req_id,
                         amount |-> RefundSaveAmount(st.p.rr.amount)]),
                    !.p.pc = "a_link"]

\* lines 1523-1525: the in-memory request, linked to the sale, written back
ApproveLink(st) ==
    LET row == [st.p.rr EXCEPT !.sale = st.p.sale_id] IN
    [st EXCEPT !.db.requests[st.p.req_id] = row, !.p.rr = row, !.p.pc = "a_salesave"]

\* lines 1527-1539: the in-memory sale, reduced, written back through Sale.save
ApproveSaleSave(st) ==
    LET row == SaleSave([st.p.sale EXCEPT !.amount_paid = @ - st.p.rr.amount]) IN
    [st EXCEPT !.db.sales[st.p.sale_id] = row, !.p.sale = row, !.p.pc = "a_mark"]

\* lines 1541-1546
ApproveMark(st) ==
    LET row == [st.p.rr EXCEPT !.status = "approved", !.approved_by = st.p.actor,
                               !.approved_date = TRUE,
                               !.refund_processed = TRUE] IN
    [st EXCEPT !.db.requests[st.p.req_id] = row, !.p.rr = row, !.p.pc = "a_item"]

\* lines 1548-1552: the item of an item-scoped request and its product, read now
ApproveItem(st) ==
    IF st.p.rr.sale_item = 0 THEN Goto(st, "a_payment")
    ELSE LET item == st.db.items[st.p.rr.sale_item] IN
         IF item.product = 0 THEN Goto(st, "a_payment")
         ELSE [st EXCEPT !.p.item_id = st.p.rr.sale_item,
                         !.p.qty = st.db.products[item.product],
                         !.p.cat = st.db.catalog[item.product],
                         !.p.pc = "a_stock"]

\* the restock with one unit instead of the item's quantity
ApproveStockOneUnit(st) ==
    LET item == st.db.items[st.p.item_id] IN
    [st EXCEPT !.db.products[item.product] = st.p.qty + 1, !.p.pc = "a_move"]

\* lines 1553-1555: product.quantity += item.quantity; product.save()
ApproveStock(st) ==
    LET item == st.db.items[st.p.item_id] IN
    [st EXCEPT !.db.products[item.product] = st.p.qty + item.quantity,
               !.db.catalog[item.product] = st.p.cat,
               !.p.pc = "a_move"]

\* lines 1557-1565
ApproveMove(st) ==
    LET item == st.db.items[st.p.item_id] IN
    [st EXCEPT !.db.movements = Append(@,
                   [product |-> item.product, movement_type |-> "in",
                    quantity |-> item.quantity, reference |-> RefundRef(st.p.req_id)]),
               !.p.pc = "a_payment"]

\* the refund Payment without the sign change
ApprovePaymentUnsigned(st) ==
    [st EXCEPT !.db.payments = Append(@,
                   [sale |-> st.p.sale_id, amount |-> st.p.rr.amount,
                    payment_method |-> "refund", reference |-> RefundRef(st.p.req_id)]),
               !.p.pc = "a_notify"]

\* lines 1567-1575: the negative Payment of the refund
ApprovePayment(st) ==
    [st EXCEPT !.db.payments = Append(@,
                   [sale |-> st.p.sale_id, amount |-> -st.p.rr.amount,
                    payment_method |-> "refund", reference |-> RefundRef(st.p.req_id)]),
               !.p.pc = "a_notify"]

\* lines 1577-1592: line 1581 imports django.contrib.auth.models.User (see
\* PayNotify): line 1582 raises after every write of the approval
ApproveNotify(st) == Raise(st, "a_notify")

-----------------------------------------------------------------------------
(* views.py decline_refund_request *)

\* lines 1607-1609
DeclineAuth(st) ==
    IF ~IsAdmin(st.p.actor) THEN Finish(st, "forbidden") ELSE Goto(st, "d_get")

\* the status check of lines 1613-1615 left out
DeclineGetNoGuard(st) ==
    IF st.p.req_id \notin 1..Len(st.db.requests) THEN Finish(st, "not_found")
    ELSE [st EXCEPT !.p.rr = st.db.requests[st.p.req_id], !.p.pc = "d_save"]

\* lines 1611-1615
DeclineGet(st) ==
    IF st.p.req_id \notin 1..Len(st.db.requests) THEN Finish(st, "not_found")
    ELSE LET rr == st.db.requests[st.p.req_id] IN
         IF rr.status # "pending" THEN Finish(st, "already_processed")
         ELSE [st EXCEPT !.p.rr = rr, !.p.pc = "d_save"]

\* a decline that also sets the guard bit of an approval
DeclineSaveProcessed(st) ==
    LET row == [st.p.rr EXCEPT !.status = "declined", !.approved_by = st.p.actor,
                               !.approved_date = TRUE, !.refund_processed = TRUE] IN
    Finish([st EXCEPT !.db.requests[st.p.req_id] = row, !.p.rr = row], "ok")

\* lines 1617-1622: the in-memory row is written back whole
DeclineSave(st) ==
    LET row == [st.p.rr EXCEPT !.status = "declined", !.approved_by = st.p.actor,
                               !.approved_date = TRUE] IN
    Finish([st EXCEPT !.db.requests[st.p.req_id] = row, !.p.rr = row], "ok")

-----------------------------------------------------------------------------
(* One statement of a frame, and a frame run to its end. *)

StepOf(st) ==
    CASE st.p.pc = "s_check" -> SaleCheck(st)
      [] st.p.pc = "s_validate" -> SaleValidate(st)
      [] st.p.pc = "s_create" -> SaleCreate(st)
      [] st.p.pc = "s_get" -> SaleGet(st)
      [] st.p.pc = "s_item" -> SaleItemCreate(st)
      [] st.p.pc = "s_stock" -> SaleStock(st)
      [] st.p.pc = "s_move" -> SaleMove(st)
      [] st.p.pc = "s_pay" -> SalePay(st)
      [] st.p.pc = "s_notify" -> SaleNotify(st)
      [] st.p.pc = "k_check" -> PendingCartCheck(st)
      [] st.p.pc = "k_delete" -> PendingCartDelete(st)
      [] st.p.pc = "k_create" -> PendingCartCreate(st)
      [] st.p.pc = "v_check" -> SaveCartCheck(st)
      [] st.p.pc = "v_create" -> SaveCartCreate(st)
      [] st.p.pc = "u_get" -> EditProductGet(st)
      [] st.p.pc = "u_save" -> EditProductSave(st)
      [] st.p.pc = "x_get" -> DeleteProductGet(st)
      [] st.p.pc = "x_delete" -> DeleteProductDelete(st)
      [] st.p.pc = "p_get" -> PayGet(st)
      [] st.p.pc = "p_check" -> PayCheck(st)
      [] st.p.pc = "p_create" -> PayCreate(st)
      [] st.p.pc = "p_save" -> PaySave(st)
      [] st.p.pc = "p_notify" -> PayNotify(st)
      [] st.p.pc = "c_parse" -> CreateParse(st)
      [] st.p.pc = "c_sale" -> CreateSale(st)
      [] st.p.pc = "c_insert" -> CreateInsert(st)
      [] st.p.pc = "c_orig" -> CreateOriginal(st)
      [] st.p.pc = "c_notify" -> CreateNotify(st)
      [] st.p.pc = "e_get" -> EditGet(st)
      [] st.p.pc = "e_validate" -> EditValidate(st)
      [] st.p.pc = "e_save" -> EditSave(st)
      [] st.p.pc = "a_auth" -> ApproveAuth(st)
      [] st.p.pc = "a_get" -> ApproveGet(st)
      [] st.p.pc = "a_sale" -> ApproveSale(st)
      [] st.p.pc = "a_refund" -> ApproveRefund(st)
      [] st.p.pc = "a_link" -> ApproveLink(st)
      [] st.p.pc = "a_salesave" -> ApproveSaleSave(st)
      [] st.p.pc = "a_mark" -> ApproveMark(st)
      [] st.p.pc = "a_item" -> ApproveItem(st)
      [] st.p.pc = "a_stock" -> ApproveStock(st)
      [] st.p.pc = "a_move" -> ApproveMove(st)
      [] st.p.pc = "a_payment" -> ApprovePayment(st)
      [] st.p.pc = "a_notify" -> ApproveNotify(st)
      [] st.p.pc = "d_auth" -> DeclineAuth(st)
      [] st.p.pc = "d_get" -> DeclineGet(st)
      [] st.p.pc = "d_save" -> DeclineSave(st)

\* the statement at p.fault fails (the database refuses it): it raises
Step(st) ==
    IF st.p.fault = st.p.pc THEN Raise([st EXCEPT !.p.fault = "none"], st.p.pc)
    ELSE StepOf(st)

RECURSIVE Run(_)
Run(st) == IF st.p.pc = "done" THEN st ELSE Run(Step(st))

Outcome(p) ==
    [op |-> p.op, id |-> p.sale_id, req |-> p.req_id,
     result |-> p.result, raised |-> p.raised]

\* a whole request as one action
Call(p) ==
    LET st == Run([db |-> db, p |-> p]) IN
    /\ db' = st.db
    /\ last' = Outcome(st.p)
    /\ UNCHANGED procs

-----------------------------------------------------------------------------
(* Requests. *)

Line(product_id, quantity, price_is_str) ==
    [product_id |-> product_id, quantity |-> quantity, price |-> UnitPrice,
     discount |-> 0, price_is_str |-> price_is_str]

\* well-formed lines, and lines whose price is sent as a JSON string
GoodLines == {Line(q, n, FALSE) : q \in ProductIds, n \in 1..InitQty}
Lines == {Line(q, n, b) : q \in ProductIds, n \in 1..InitQty, b \in BOOLEAN}

\* lines at the counter: well-formed ones, a product that does not exist,
\* one unit more than the catalog ever holds
CounterLines ==
    GoodLines
    \cup {Line(NumProducts + 1, 1, FALSE)}
    \cup {Line(q, InitQty + 1, FALSE) : q \in ProductIds}

OneLineCarts == {<<l>> : l \in GoodLines}
Carts == UNION {[1..n -> Lines] : n \in 1..MaxLines}
\* the empty cart too
CounterCarts == UNION {[1..n -> CounterLines] : n \in 0..MaxLines}

\* customer_name and customer_phone as sent: omitted, given, name only
Customers == {<<"", "">>, <<"Ann", "1">>, <<"Ann", "">>}

SavePendingCartFrame(items) ==
    [Frame EXCEPT !.op = "save_pending_cart", !.pc = "k_check", !.items = items]

SaveCartFrame(items) ==
    [Frame EXCEPT !.op = "save_cart", !.pc = "v_check", !.items = items]

\* process_sale with every field of the request body
SaleFrame(items, amount_paid, invoice, customer, saved_cart_id) ==
    [Frame EXCEPT !.op = "process_sale", !.pc = "s_check", !.items = items,
                  !.amount = amount_paid, !.invoice = invoice,
                  !.customer_name = customer[1], !.customer_phone = customer[2],
                  !.saved_cart_id = saved_cart_id]

ProcessSaleFrame(items, amount_paid, invoice) ==
    [Frame EXCEPT !.op = "process_sale", !.pc = "s_check", !.items = items,
                  !.amount = amount_paid, !.invoice = invoice]

\* process_sale with line discounts and the body's "discount" key: choice is
\* <<whether the key is sent, its value>>
DiscountSaleFrame(items, choice, amount_paid, invoice) ==
    [Frame EXCEPT !.op = "process_sale", !.pc = "s_check", !.items = items,
                  !.has_discount = choice[1], !.discount = choice[2],
                  !.amount = amount_paid, !.invoice = invoice]

\* edit_product: the form posts every column, the quantity among them
EditProductFrame(product_id, name, quantity) ==
    [Frame EXCEPT !.op = "edit_product", !.pc = "u_get",
                  !.product_id = product_id, !.name = name, !.quantity = quantity]

DeleteProductFrame(product_id) ==
    [Frame EXCEPT !.op = "delete_product", !.pc = "x_get", !.product_id = product_id]

RecordPaymentFrame(sale_id, amount) ==
    [Frame EXCEPT !.op = "record_payment", !.pc = "p_get", !.sale_id = sale_id,
                  !.amount = amount]

CreateRefundFrame(actor, sale_id, item_id, amount, name, phone) ==
    [Frame EXCEPT !.op = "create_refund", !.pc = "c_parse", !.actor = actor,
                  !.sale_id = sale_id, !.item_id = item_id, !.amount = amount,
                  !.customer_name = name, !.customer_phone = phone]

EditRefundFrame(actor, req_id, amount, name, phone) ==
    [Frame EXCEPT !.op = "edit_refund", !.pc = "e_get", !.actor = actor,
                  !.req_id = req_id, !.amount = amount,
                  !.customer_name = name, !.customer_phone = phone]

ApproveFrame(actor, req_id) ==
    [Frame EXCEPT !.op = "approve", !.pc = "a_auth", !.actor = actor, !.req_id = req_id]

DeclineFrame(actor, req_id) ==
    [Frame EXCEPT !.op = "decline", !.pc = "d_auth", !.actor = actor, !.req_id = req_id]

\* amounts a client sends: negative, zero, one unit, the exact total, too much
PaidChoices(items) == {-1, 0, 1, SumPriceQty(items), SumPriceQty(items) + 1}

ProcessSale ==
    /\ Len(db.sales) < MaxSales
    /\ \E items \in OneLineCarts, invoice \in Invoices :
         \E amount_paid \in PaidChoices(items) :
            Call(ProcessSaleFrame(items, amount_paid, invoice))

RecordPayment ==
    \E sale_id \in 1..Len(db.sales), amount \in {0, 1, 2} :
        Call(RecordPaymentFrame(sale_id, amount))

CreateRefundRequest ==
    /\ Len(db.requests) < MaxRequests
    /\ \E actor \in Actors, sale_id \in 0..Len(db.sales), item_id \in 0..Len(db.items) :
         \E amount \in {0, 1, 2, 3} :
            Call(CreateRefundFrame(actor, sale_id, item_id, amount, "Ann", "1"))

EditRefundRequest ==
    \E actor \in Actors, req_id \in 1..Len(db.requests), amount \in {-1, 1, 2} :
        Call(EditRefundFrame(actor, req_id, amount, "Ann", "1"))

ApproveRefundRequest ==
    \E actor \in Actors, req_id \in 1..Len(db.requests) :
        Call(ApproveFrame(actor, req_id))

DeclineRefundRequest ==
    \E actor \in Actors, req_id \in 1..Len(db.requests) :
        Call(DeclineFrame(actor, req_id))

Init ==
    /\ db = EmptyDb
    /\ procs = << >>
    /\ last = NoCall

Next ==
    \/ ProcessSale
    \/ RecordPayment
    \/ CreateRefundRequest
    \/ EditRefundRequest
    \/ ApproveRefundRequest
    \/ DeclineRefundRequest

Spec == Init /\ [][Next]_vars

\* the sales alone: carts of several lines, lines that raise in the write loop
ProcessCart ==
    /\ Len(db.sales) < MaxCartSales
    /\ \E items \in Carts, invoice \in 1..MaxCartSales :
         \E amount_paid \in {0, SumPriceQty(items)} :
            Call(ProcessSaleFrame(items, amount_paid, invoice))

NextSale == ProcessCart

SpecSale == Init /\ [][NextSale]_vars

\* the counter: carts staged before the sale, lines that cannot be served,
\* customers given or omitted, sales paid in full or not at all
ProcessOrder ==
    /\ Len(db.sales) < MaxSales
    /\ \E items \in CounterCarts, invoice \in Invoices, customer \in Customers :
         \E amount_paid \in {0, SumPriceQty(items)}, saved_cart_id \in 0..MaxSavedCarts :
            Call(SaleFrame(items, amount_paid, invoice, customer, saved_cart_id))

SavePendingCart ==
    \E items \in {<< >>} \cup OneLineCarts : Call(SavePendingCartFrame(items))

SaveCart ==
    /\ db.cart_seq < MaxSavedCarts
    /\ \E items \in {<< >>} \cup OneLineCarts : Call(SaveCartFrame(items))

NextCounter ==
    \/ ProcessOrder
    \/ SavePendingCart
    \/ SaveCart

SpecCounter == Init /\ [][NextCounter]_vars

\* the stock room: lines of any integer quantity and with line discounts,
\* a sale-level discount sent or not, products edited and deleted
StockLine(product_id, quantity, discount) ==
    [Line(product_id, quantity, FALSE) EXCEPT !.discount = discount]

StockLines ==
    {StockLine(q, n, d) : q \in ProductIds, n \in {-1, 0, 1, InitQty}, d \in {0, 1}}

StockCarts == UNION {[1..n -> StockLines] : n \in 1..MaxLines}

SaleDiscounts == {<<FALSE, 0>>, <<TRUE, 0>>, <<TRUE, 1>>}

SellStock ==
    /\ Len(db.sales) < MaxSales
    /\ \E items \in StockCarts, choice \in SaleDiscounts, invoice \in Invoices :
         \E amount_paid \in {0, UnitPrice} :
            Call(DiscountSaleFrame(items, choice, amount_paid, invoice))

EditProduct ==
    \E q \in ProductIds, quantity \in {0, InitQty} : Call(EditProductFrame(q, 1, quantity))

DeleteProduct ==
    \E q \in ProductIds : Call(DeleteProductFrame(q))

NextCatalog ==
    \/ SellStock
    \/ EditProduct
    \/ DeleteProduct

SpecCatalog == Init /\ [][NextCatalog]_vars

\* two staff members at two tills: each stages carts and sells, with or
\* without the id of a saved cart, its own or the other's
MaxStaged == 2

StagePendingCart ==
    \E actor \in Actors, items \in OneLineCarts :
        Call([SavePendingCartFrame(items) EXCEPT !.actor = actor])

StageSavedCart ==
    /\ db.cart_seq < MaxStaged
    /\ \E actor \in Actors, items \in OneLineCarts :
         Call([SaveCartFrame(items) EXCEPT !.actor = actor])

SellStaged ==
    /\ Len(db.sales) < MaxSales
    /\ \E actor \in Actors, items \in OneLineCarts, invoice \in Invoices :
         \E saved_cart_id \in 0..MaxStaged :
            Call([SaleFrame(items, SumPriceQty(items), invoice, <<"", "">>,
                            saved_cart_id) EXCEPT !.actor = actor])

NextCart ==
    \/ StagePendingCart
    \/ StageSavedCart
    \/ SellStaged

SpecCart == Init /\ [][NextCart]_vars

\* the refund desk: sales to named customers, then refund requests that
\* name the customer instead of the sale
Buyers == {<<"Ann", "1">>, <<"Bob", "2">>}

\* the customer as typed on the refund form: another case and another
\* phone, another name with a known phone, the name alone, a stranger
Claimants == {<<"ANN", "9">>, <<"Zed", "2">>, <<"Ann", "">>, <<"Zed", "9">>}

SellTo ==
    /\ Len(db.sales) < MaxCartSales
    /\ \E items \in OneLineCarts, invoice \in 1..MaxCartSales, customer \in Buyers :
         \E amount_paid \in {0, UnitPrice, SumPriceQty(items)} :
            Call(SaleFrame(items, amount_paid, invoice, customer, 0))

CreateForCustomer ==
    /\ Len(db.requests) < MaxRequests
    /\ \E actor \in Actors, customer \in Claimants, amount \in 1..(UnitPrice + 1) :
         Call(CreateRefundFrame(actor, 0, 0, amount, customer[1], customer[2]))

NextCustomer ==
    \/ SellTo
    \/ CreateForCustomer

SpecCustomer == Init /\ [][NextCustomer]_vars

-----------------------------------------------------------------------------
(* Failing statements: the views run outside any transaction, so a write
   the database refuses (a lock timeout, a lost connection) raises in the
   middle of a view. SpecFault lets any one write of an approval fail. *)

ApproveWrites ==
    {"a_refund", "a_link", "a_salesave", "a_mark", "a_stock", "a_move", "a_payment"}

ApproveWithFault ==
    \E actor \in Actors, req_id \in 1..Len(db.requests) :
        \E fault \in ApproveWrites \cup {"none"} :
            Call([ApproveFrame(actor, req_id) EXCEPT !.fault = fault])

\* a sale paid in full at the counter
ProcessPaidSale ==
    /\ Len(db.sales) < MaxSales
    /\ \E items \in OneLineCarts, invoice \in Invoices :
            Call(ProcessSaleFrame(items, SumPriceQty(items), invoice))

NextFault ==
    \/ ProcessPaidSale
    \/ CreateRefundRequest
    \/ ApproveWithFault
    \/ DeclineRefundRequest

SpecFault == Init /\ [][NextFault]_vars

\* returns: several refund requests on the items of a paid sale, approved
\* one after the other
MaxItemRequests == 2

CreateItemRefund ==
    /\ Len(db.requests) < MaxItemRequests
    /\ \E sale_id \in 1..Len(db.sales), item_id \in 1..Len(db.items) :
         \E amount \in 1..UnitPrice :
            Call(CreateRefundFrame("staff", sale_id, item_id, amount, "Ann", "1"))

NextReturns ==
    \/ ProcessPaidSale
    \/ CreateItemRefund
    \/ ApproveRefundRequest
    \/ DeclineRefundRequest

SpecReturns == Init /\ [][NextReturns]_vars

-----------------------------------------------------------------------------
(* Two requests at once: each Step is one database statement, committed on
   its own; procs holds the two frames and the database they started on. *)

DbAfter(d, p) == Run([db |-> d, p |-> p]).db

\* one unit of every product left
DbLastUnit == [EmptyDb EXCEPT !.products = [q \in ProductIds |-> 1]]

\* a fully paid sale of the whole stock of product 1
DbSold ==
    DbAfter(EmptyDb, ProcessSaleFrame(<<Line(1, InitQty, FALSE)>>, InitQty * UnitPrice, 1))

\* the same with a pending refund request on its item, or on the sale
DbPendingItem == DbAfter(DbSold, CreateRefundFrame("staff", 1, 1, UnitPrice, "Ann", "1"))
DbPendingSale == DbAfter(DbSold, CreateRefundFrame("staff", 1, 0, UnitPrice, "Ann", "1"))

\* a sale of the whole stock of product 1 on which one unit price is paid,
\* and the same with a pending refund request of that amount on the sale
DbPartial ==
    DbAfter(EmptyDb, ProcessSaleFrame(<<Line(1, InitQty, FALSE)>>, UnitPrice, 1))
DbPartialPending ==
    DbAfter(DbPartial, CreateRefundFrame("staff", 1, 0, UnitPrice, "Ann", "1"))

\* a fully paid sale with two pending refund requests on it, each of the
\* whole amount paid
DbTwoPending ==
    DbAfter(DbAfter(DbSold, CreateRefundFrame("staff", 1, 0, InitQty * UnitPrice, "Ann", "1")),
            CreateRefundFrame("staff", 1, 0, InitQty * UnitPrice, "Ann", "1"))

\* the requests a client may send at once on database d; k tells the two apart
ConcFrames(d, k) ==
    {ProcessSaleFrame(<<Line(1, 1, FALSE)>>, UnitPrice, Len(d.sales) + k)}
    \cup {ApproveFrame("admin", r) : r \in 1..Len(d.requests)}
    \cup {RecordPaymentFrame(s, UnitPrice) : s \in 1..Len(d.sales)}
    \cup {EditProductFrame(q, 1, d.products[q]) : q \in ProductIds}
    \cup {EditRefundFrame("staff", r, UnitPrice, "Ann", "1") : r \in 1..Len(d.requests)}
    \cup {DeclineFrame("admin", r) : r \in 1..Len(d.requests)}
    \cup {SavePendingCartFrame(<<Line(1, 1, FALSE)>>)}

InitConc ==
    /\ \E d \in {DbLastUnit, DbPendingItem, DbPendingSale, DbPartial, DbPartialPending,
                 DbTwoPending} :
         \E f1 \in ConcFrames(d, 1), f2 \in ConcFrames(d, 2) :
            /\ db = d
            /\ procs = [f |-> <<f1, f2>>, base |-> d]
    /\ last = NoCall

StepProc(i) ==
    /\ procs.f[i].pc # "done"
    /\ LET st == Step([db |-> db, p |-> procs.f[i]]) IN
         /\ db' = st.db
         /\ procs' = [procs EXCEPT !.f[i] = st.p]
    /\ UNCHANGED last

NextConc == \E i \in {1, 2} : StepProc(i)

SpecConc == InitConc /\ [][NextConc]_vars

-----------------------------------------------------------------------------
(* Derived views of the database. *)

Max(a, b) == IF a >= b THEN a ELSE b

Sales == 1..Len(db.sales)
Requests == 1..Len(db.requests)

RECURSIVE SumAmounts(_, _)
SumAmounts(payments, sale_id) ==
    IF payments = << >> THEN 0
    ELSE (IF Head(payments).sale = sale_id THEN Head(payments).amount ELSE 0)
         + SumAmounts(Tail(payments), sale_id)

\* the approval of the last request wrote everything it writes
ApproveDone == last.op = "approve" /\ last.raised = "a_notify"

-----------------------------------------------------------------------------
(* C1: after any sequence of process_sale, record_payment and approve calls,
   every stored Sale has balance = max(total - amount_paid, 0), and its
   payment_status is 'paid' when the balance is 0, 'partial' when
   0 < balance < total, and 'unpaid' otherwise. *)
C1_BalanceAndStatus ==
    \A k \in Sales :
        LET s == db.sales[k] IN
        /\ s.balance = Max(s.total - s.amount_paid, 0)
        /\ s.payment_status = IF s.balance = 0 THEN "paid"
                              ELSE IF s.balance < s.total THEN "partial"
                              ELSE "unpaid"

\* an approval has reduced a sale that now carries a partial balance
C1_Witness ==
    /\ ApproveDone
    /\ db.sales[last.id].payment_status = "partial"
    /\ db.sales[last.id].balance > 0

(* C2: after any sequence of process_sale, record_payment and approve calls,
   every Sale's amount_paid equals the sum of the amounts of its Payment
   rows. *)
C2_AmountPaidIsPaymentSum ==
    \A k \in Sales : db.sales[k].amount_paid = SumAmounts(db.payments, k)

(* C3: Product.quantity is never negative after any sequence of process_sale
   calls starting from non-negative stock, also for a cart with several
   lines of the same product. *)
C3_StockNeverNegative == \A q \in ProductIds : db.products[q] >= 0

(* C4: process_sale is all-or-nothing: a call that returns a failure leaves
   no row of any table behind and every Product.quantity as it was. *)
C4_FailedSaleWritesNothing ==
    [][(last'.op = "process_sale" /\ last'.result # "ok") => db' = db]_vars

\* the Refund rows and the refund Payment rows of request r
RefundRowsOf(r) == {k \in 1..Len(db.refunds) : db.refunds[k].refund_request = r}
RefundPaymentsOf(r) ==
    {k \in 1..Len(db.payments) :
        /\ db.payments[k].payment_method = "refund"
        /\ db.payments[k].reference = RefundRef(r)}
RefundMovementsOf(r) ==
    {k \in 1..Len(db.movements) : db.movements[k].reference = RefundRef(r)}

(* C6: approve called again on a RefundRequest that was approved is rejected
   as already processed (or as forbidden, for a caller who is no admin) and
   changes nothing; an approved request has exactly one Refund row and
   exactly one refund Payment row. *)
C6_SecondApproveRejected ==
    /\ [](\A r \in Requests :
            db.requests[r].status = "approved" =>
                /\ Cardinality(RefundRowsOf(r)) = 1
                /\ Cardinality(RefundPaymentsOf(r)) = 1)
    /\ [][\A r \in Requests :
            (last'.op = "approve" /\ last'.req = r /\ db.requests[r].status = "approved")
            => /\ db' = db
               /\ last'.result \in {"already_processed", "forbidden"}]_vars

\* the second approve of an approved request has been rejected
C6_Witness ==
    /\ last.op = "approve"
    /\ last.result = "already_processed"
    /\ db.requests[last.req].status = "approved"
    /\ Cardinality(RefundRowsOf(last.req)) = 1

(* C9: an approve that goes through, of a request of amount A linked to a
   sale with amount_paid P >= A, sets the sale's amount_paid to P - A,
   recomputes balance = max(total - (P - A), 0) and the status from it, and
   inserts exactly one Payment row, with amount -A and method 'refund'. *)
C9_ApproveReducesPaid ==
    [][\A r \in Requests :
        (ApproveDone' /\ last'.req = r /\ db.requests[r].sale # 0)
        => LET s == db.requests[r].sale
               A == db.requests[r].amount
               P == db.sales[s].amount_paid
               t == db'.sales[s]
           IN /\ P >= A
              /\ t.amount_paid = P - A
              /\ t.total = db.sales[s].total
              /\ t.balance = Max(t.total - (P - A), 0)
              /\ t.payment_status = IF t.balance = 0 THEN "paid"
                                    ELSE IF t.balance < t.total THEN "partial"
                                    ELSE "unpaid"
              /\ db'.payments = Append(db.payments,
                     [sale |-> s, amount |-> -A, payment_method |-> "refund",
                      reference |-> RefundRef(r)])]_vars

\* scenario E in the model's units: total 2, paid 2, refund of 1
C9_Witness ==
    /\ ApproveDone
    /\ db.sales[last.id].total = 2
    /\ db.sales[last.id].amount_paid = 1
    /\ db.sales[last.id].balance = 1
    /\ db.sales[last.id].payment_status = "partial"
    /\ db.payments[Len(db.payments)].amount = -1
    /\ db.payments[Len(db.payments)].payment_method = "refund"

(* C10: an approve that goes through, of an item-scoped request whose
   SaleItem has quantity Q, increases the quantity of the item's product by
   exactly Q and appends exactly one StockMovement 'in' of quantity Q with
   reference REFUND-{request id}; for a request without an item it changes
   no quantity and appends no StockMovement. *)
C10_ApproveRestocks ==
    [][\A r \in Requests :
        (ApproveDone' /\ last'.req = r)
        => LET rr == db.requests[r] IN
           IF rr.sale_item # 0
           THEN LET item == db.items[rr.sale_item] IN
                /\ db'.products = [db.products EXCEPT ![item.product] = @ + item.quantity]
                /\ db'.movements = Append(db.movements,
                       [product |-> item.product, movement_type |-> "in",
                        quantity |-> item.quantity, reference |-> RefundRef(r)])
           ELSE /\ db'.products = db.products
                /\ db'.movements = db.movements]_vars

\* an item of two units has been refunded and restocked
C10_Witness ==
    /\ ApproveDone
    /\ db.requests[last.req].sale_item # 0
    /\ db.items[db.requests[last.req].sale_item].quantity = 2
    /\ db.movements[Len(db.movements)].movement_type = "in"
    /\ db.movements[Len(db.movements)].quantity = 2
    /\ db.products[db.items[db.requests[last.req].sale_item].product] = InitQty

\* both requests of a concurrent pair have ended
BothDone == procs.f[1].pc = "done" /\ procs.f[2].pc = "done"

BothOp(op) == procs.f[1].op = op /\ procs.f[2].op = op

(* C5: two concurrent process_sale calls, each for 1 unit of a product whose
   quantity is 1: in every interleaving exactly one succeeds, the other is
   rejected for insufficient stock, and the final quantity is 0 with one
   sale stored. *)
C5_LastUnitSoldOnce ==
    (BothDone /\ BothOp("process_sale") /\ procs.base = DbLastUnit)
    => /\ \E i \in {1, 2} :
            /\ procs.f[i].result = "ok"
            /\ procs.f[3 - i].result = "insufficient_stock"
       /\ db.products[1] = 0
       /\ Len(db.sales) = 1

(* C7: two concurrent approve calls on the same pending RefundRequest: in
   every interleaving at most one applies its effects: at most one Refund
   row, one refund Payment row and one restock exist for the request, and
   when both have ended the sale's amount_paid is reduced by the request's
   amount once and an item-scoped request has restocked its product once. *)
C7_ConcurrentApproveOnce ==
    /\ \A r \in Requests :
          /\ Cardinality(RefundRowsOf(r)) <= 1
          /\ Cardinality(RefundPaymentsOf(r)) <= 1
          /\ Cardinality(RefundMovementsOf(r)) <= 1
    /\ (BothDone /\ BothOp("approve") /\ procs.f[1].req_id = procs.f[2].req_id)
       => LET r == procs.f[1].req_id
              rr == procs.base.requests[r]
              s == rr.sale
              q == IF rr.sale_item = 0 THEN 0 ELSE procs.base.items[rr.sale_item].quantity
          IN /\ Cardinality({i \in {1, 2} : procs.f[i].raised = "a_notify"}) = 1
             /\ db.sales[s].amount_paid = procs.base.sales[s].amount_paid - rr.amount
             /\ db.products[1] = procs.base.products[1] + q
             /\ Cardinality(RefundRowsOf(r)) = 1
             /\ Cardinality(RefundPaymentsOf(r)) = 1

\* one approve went through, the other was stopped by the unique Refund
C7_Witness ==
    /\ BothDone /\ BothOp("approve")
    /\ procs.f[1].req_id = procs.f[2].req_id
    /\ \E i \in {1, 2} :
          /\ procs.f[i].raised = "a_notify"
          /\ procs.f[3 - i].raised = "a_refund"
    /\ Cardinality(RefundMovementsOf(procs.f[1].req_id)) = 1

\* everything an approval of request r writes is stored
ApprovalStored(r) ==
    /\ Cardinality(RefundRowsOf(r)) = 1
    /\ Cardinality(RefundPaymentsOf(r)) = 1
    /\ db.requests[r].status = "approved"
    /\ db.requests[r].refund_processed
    /\ db.requests[r].sale_item # 0 => Cardinality(RefundMovementsOf(r)) = 1

(* C8: approve never partially executes: a call that has ended, with or
   without an error, has either written everything (Refund row, sale
   update, request approved and processed, restock and StockMovement for an
   item-scoped request, refund Payment) or has left the database as it
   was. *)
C8_ApproveAllOrNothing ==
    [][\A r \in Requests :
        (last'.op = "approve" /\ last'.req = r)
        => (db' = db \/ ApprovalStored(r)')]_vars

-----------------------------------------------------------------------------
\* the record_payment call that ended last wrote its Payment and its Sale
PaymentDone == last.op = "record_payment" /\ last.raised = "p_notify"

\* amounts a client may post to record_payment on the stored sales
PostedAmounts == -1..(InitQty * UnitPrice + 2)

(* C11: record_payment with an amount <= 0, or with an amount greater than
   the sale's current balance, is rejected in every reachable state: no
   Payment row is inserted and the sale (amount_paid, balance and
   payment_status, like every other row) is left as it was. *)
C11_BadPaymentRejected ==
    \A k \in Sales, a \in PostedAmounts :
        (a <= 0 \/ a > db.sales[k].balance)
        => LET st == Run([db |-> db, p |-> RecordPaymentFrame(k, a)]) IN
           /\ st.p.result = (IF a <= 0 THEN "invalid_amount" ELSE "exceeds_balance")
           /\ st.db = db

\* a payment above the open balance of a partly paid sale was rejected
C11_Witness ==
    /\ last.op = "record_payment"
    /\ last.result = "exceeds_balance"
    /\ db.sales[last.id].balance > 0
    /\ db.sales[last.id].payment_status = "partial"

(* C12: a record_payment that goes through, of amount a with
   0 < a <= balance, inserts exactly one Payment row of amount a, increases
   the sale's amount_paid by exactly a, sets balance to
   max(total - amount_paid, 0) and the status to 'paid' if the new balance
   is 0 and to 'partial' otherwise; no other row is modified. *)
C12_PaymentApplied ==
    [][PaymentDone'
       => LET k == last'.id
              a == db'.sales[k].amount_paid - db.sales[k].amount_paid
              t == db'.sales[k]
          IN /\ a > 0 /\ a <= db.sales[k].balance
             /\ Len(db'.payments) = Len(db.payments) + 1
             /\ SubSeq(db'.payments, 1, Len(db.payments)) = db.payments
             /\ db'.payments[Len(db'.payments)].sale = k
             /\ db'.payments[Len(db'.payments)].amount = a
             /\ t.balance = Max(t.total - t.amount_paid, 0)
             /\ t.payment_status = (IF t.balance = 0 THEN "paid" ELSE "partial")
             /\ db' = [db EXCEPT !.payments = db'.payments, !.sales[k] = t]
             /\ t = [db.sales[k] EXCEPT !.amount_paid = @ + a,
                                        !.balance = t.balance,
                                        !.payment_status = t.payment_status]]_vars

-----------------------------------------------------------------------------
\* the concurrent pair is two of record_payment and approve, one of them a
\* record_payment
PaymentRace ==
    /\ \A i \in {1, 2} : procs.f[i].op \in {"record_payment", "approve"}
    /\ \E i \in {1, 2} : procs.f[i].op = "record_payment"

(* C13: two concurrent record_payment calls, or a record_payment and an
   approve, on the same sale lose no update of amount_paid: when both have
   ended, the sale's amount_paid is its initial value plus the amounts of
   the Payment rows the calls inserted, and it does not exceed the total. *)
C13_NoLostUpdate ==
    (BothDone /\ PaymentRace)
    => \A k \in Sales :
          /\ db.sales[k].amount_paid =
                 procs.base.sales[k].amount_paid
                 + SumAmounts(db.payments, k) - SumAmounts(procs.base.payments, k)
          /\ db.sales[k].amount_paid <= db.sales[k].total

-----------------------------------------------------------------------------
\* a line the database cannot serve: no such product, or more than its stock
Unservable(l) ==
    \/ l.product_id \notin ProductIds
    \/ l.quantity > db.products[l.product_id]

\* the Sale rows the step has inserted
NewSales == {k \in 1..Len(db'.sales) : k > Len(db.sales)}

(* C14: process_sale with amount_paid < total and an empty customer name or
   an empty customer phone is rejected and writes nothing: no step stores a
   Sale whose amount_paid is below its total and whose customer name or
   phone is empty. *)
C14_InstallmentNeedsCustomer ==
    [][\A k \in NewSales :
          LET t == db'.sales[k] IN
          t.amount_paid < t.total
          => (t.customer_name # "" /\ t.customer_phone # "")]_vars

(* C15: a process_sale that is fully paid at creation (amount_paid >= total)
   and omits the customer name stores the Sale with customer_name
   "Walk-in Customer": no step stores a fully paid Sale with an empty
   customer name. *)
C15_WalkInCustomer ==
    [][\A k \in NewSales :
          LET t == db'.sales[k] IN
          t.amount_paid >= t.total => t.customer_name # ""]_vars

(* C16: process_sale with an empty cart, with a line whose product does not
   exist, or with a line that asks for more than the product's current
   quantity is rejected before any write: in every reachable state such a
   request creates no Sale, changes no Product.quantity and leaves the
   caller's pending cart and saved carts in place. *)
C16_UnservableCartRejected ==
    \A items \in CounterCarts, invoice \in Invoices, customer \in Customers :
        \A amount_paid \in {0, SumPriceQty(items)}, saved_cart_id \in 0..MaxSavedCarts :
            (items = << >> \/ \E i \in 1..Len(items) : Unservable(items[i]))
            => LET st == Run([db |-> db,
                             p |-> SaleFrame(items, amount_paid, invoice, customer,
                                             saved_cart_id)])
               IN /\ st.p.result \in {"no_items", "product_not_found", "insufficient_stock"}
                  /\ st.db = db

\* a sale was refused for lack of stock while carts were staged
C16_Witness ==
    /\ last.op = "process_sale"
    /\ last.result = "insufficient_stock"
    /\ db.sales = << >>
    /\ db.pending_carts # << >>
    /\ db.saved_carts # {}

-----------------------------------------------------------------------------
(* C17: the status of a RefundRequest moves from pending to approved or to
   declined and stays there: in any sequence of create, edit, approve and
   decline calls, a request that is approved or declined keeps its status,
   its amount and its refund_processed flag, and a pending request either
   stays pending or becomes approved or declined. *)
C17_TerminalStatus ==
    [][\A r \in Requests :
          LET rr == db.requests[r]
              t == db'.requests[r]
          IN /\ rr.status \in {"pending", "approved", "declined"}
             /\ rr.status # "pending"
                => /\ t.status = rr.status
                   /\ t.amount = rr.amount
                   /\ t.refund_processed = rr.refund_processed]_vars

\* an admin tried to approve a declined request
C17_Witness ==
    /\ last.op = "approve"
    /\ last.result = "already_processed"
    /\ db.requests[last.req].status = "declined"

(* C18: approve and decline called by a user who is neither admin nor
   superuser are rejected and leave the RefundRequest and every Sale,
   Payment, Refund, Product and StockMovement as they were, in every
   reachable state. *)
C18_OnlyAdminsDecide ==
    \A r \in Requests, actor \in Actors :
        ~IsAdmin(actor)
        => LET a == Run([db |-> db, p |-> ApproveFrame(actor, r)])
               d == Run([db |-> db, p |-> DeclineFrame(actor, r)])
           IN /\ a.p.result = "forbidden" /\ a.db = db
              /\ d.p.result = "forbidden" /\ d.db = db

\* a staff member tried to approve a pending request its sale could pay
C18_Witness ==
    /\ last.op = "approve"
    /\ last.result = "forbidden"
    /\ db.requests[last.req].status = "pending"
    /\ db.requests[last.req].sale # 0
    /\ db.sales[db.requests[last.req].sale].amount_paid >= db.requests[last.req].amount

(* C19: a decline that succeeds acts on a pending request, sets its status
   to declined and its approved_by and approved_date, leaves its
   refund_processed false, and changes nothing else: no Sale, Payment,
   Refund, Product quantity or StockMovement. *)
C19_DeclineFrame ==
    [][(last'.op = "decline" /\ last'.result = "ok")
       => LET r == last'.req
              rr == db.requests[r]
              t == db'.requests[r]
          IN /\ rr.status = "pending"
             /\ t.status = "declined"
             /\ IsAdmin(t.approved_by)
             /\ t.approved_date
             /\ ~t.refund_processed
             /\ t = [rr EXCEPT !.status = "declined", !.approved_by = t.approved_by,
                               !.approved_date = TRUE]
             /\ db' = [db EXCEPT !.requests[r] = t]]_vars

\* a request against a paid sale has been declined
C19_Witness ==
    /\ last.op = "decline"
    /\ last.result = "ok"
    /\ db.requests[last.req].status = "declined"
    /\ db.requests[last.req].sale # 0
    /\ db.sales[db.requests[last.req].sale].amount_paid > 0
    /\ db.payments # << >>
    /\ db.refunds = << >>

\* amounts a client may post to edit_refund_request
EditedAmounts == -1..(InitQty * UnitPrice + 1)

(* C20: edit_refund_request succeeds only when the request is pending and
   the caller is its creator or an admin; in every other case it is
   rejected and no field of the request changes; an edit changes no other
   row. *)
C20_EditOnlyPendingByOwner ==
    \A r \in Requests, actor \in Actors, amount \in EditedAmounts :
        LET rr == db.requests[r]
            st == Run([db |-> db, p |-> EditRefundFrame(actor, r, amount, "Bob", "2")])
            allowed == rr.status = "pending" /\ (rr.created_by = actor \/ IsAdmin(actor))
        IN /\ st.p.result = "ok" => allowed
           /\ ~allowed => (st.p.result = "forbidden" /\ st.db = db)
           /\ st.p.result # "ok" => st.db = db
           /\ st.db = [db EXCEPT !.requests[r] = st.db.requests[r]]

\* a staff member tried to edit a pending request an admin created
C20_Witness ==
    /\ last.op = "edit_refund"
    /\ last.result = "forbidden"
    /\ db.requests[last.req].status = "pending"
    /\ db.requests[last.req].created_by = "admin"

-----------------------------------------------------------------------------
\* amounts a client may post to create_refund_request
RequestedAmounts == 1..(InitQty * UnitPrice + 1)

(* C21: create_refund_request enforces the ceiling: with a sale item given
   it is rejected when amount > item.total, with only a sale given when
   amount > sale.amount_paid; a rejected create stores no RefundRequest;
   every request it stores is pending, has refund_processed false, an
   amount within the ceiling and original_amount set to that ceiling. *)
C21_CreateCeiling ==
    \A actor \in Actors, sale_id \in Sales, item_id \in 0..Len(db.items) :
        \A amount \in RequestedAmounts :
            (item_id # 0 => db.items[item_id].sale = sale_id)
            => LET st == Run([db |-> db,
                             p |-> CreateRefundFrame(actor, sale_id, item_id, amount,
                                                     "Ann", "1")])
                   ceiling == IF item_id # 0 THEN db.items[item_id].total
                              ELSE db.sales[sale_id].amount_paid
               IN IF amount > ceiling
                  THEN /\ st.db = db
                       /\ st.p.result \in {"exceeds_item_total", "exceeds_paid"}
                  ELSE /\ Len(st.db.requests) = Len(db.requests) + 1
                       /\ LET t == st.db.requests[Len(st.db.requests)] IN
                             /\ t.status = "pending"
                             /\ ~t.refund_processed
                             /\ t.amount = amount
                             /\ t.original_amount = ceiling
                             /\ t.sale = sale_id /\ t.sale_item = item_id

\* a request above the total of an item of a paid sale was refused
C21_Witness ==
    /\ last.op = "create_refund"
    /\ last.result = "exceeds_item_total"
    /\ db.requests = << >>
    /\ db.sales[last.id].amount_paid > 0

-----------------------------------------------------------------------------
(* C23: money never goes negative: after any sequence of process_sale,
   record_payment, refund create, edit and approve calls, every Sale has
   amount_paid >= 0. *)
C23_AmountPaidNonNegative == \A k \in Sales : db.sales[k].amount_paid >= 0

(* C26: if record_payment reports an error to its caller, whatever step
   raised it, the notification step after the writes included, then no
   Payment row of the call is stored and the sale is as it was before the
   call. *)
C26_PaymentErrorWritesNothing ==
    [][(last'.op = "record_payment" /\ last'.result = "error") => db' = db]_vars

(* C27: every Payment row with payment_method 'refund' has a strictly
   negative amount and every Payment row with another method a strictly
   positive amount, after any sequence of process_sale, record_payment,
   refund create, edit and approve calls. *)
C27_PaymentSign ==
    \A k \in 1..Len(db.payments) :
        IF db.payments[k].payment_method = "refund"
        THEN db.payments[k].amount < 0
        ELSE db.payments[k].amount > 0

-----------------------------------------------------------------------------
(* C22: the Refund bookkeeping is one-to-one with approval: in every
   reachable state each approved RefundRequest has refund_processed true
   and exactly one Refund row linked to it, and each pending or declined
   RefundRequest has refund_processed false and no Refund row. *)
C22_RefundOneToOne ==
    \A r \in Requests :
        IF db.requests[r].status = "approved"
        THEN /\ db.requests[r].refund_processed
             /\ Cardinality(RefundRowsOf(r)) = 1
        ELSE /\ ~db.requests[r].refund_processed
             /\ RefundRowsOf(r) = {}

-----------------------------------------------------------------------------
(* C25: invoice numbers are globally unique: in every reachable state no
   two stored Sales share an invoice_number, and a process_sale whose
   generated number collides with a stored one does not fail on it (it
   generates another number and completes). *)
C25_InvoiceUniqueAndRetried ==
    /\ [](\A j \in Sales, k \in Sales :
            j # k => db.sales[j].invoice_number # db.sales[k].invoice_number)
    /\ [][last'.op = "process_sale" => last'.raised # "s_create"]_vars

-----------------------------------------------------------------------------
\* the totals of a cart, line by line
CartSubtotal(items) ==
    LET f[n \in 0..Len(items)] ==
            IF n = 0 THEN 0 ELSE f[n - 1] + items[n].price * items[n].quantity
    IN f[Len(items)]

CartDiscounts(items) ==
    LET f[n \in 0..Len(items)] == IF n = 0 THEN 0 ELSE f[n - 1] + items[n].discount
    IN f[Len(items)]

\* the SaleItem rows of sale k
ItemsOf(k) == {n \in 1..Len(db.items) : db.items[n].sale = k}

(* C24: in every reachable state, every process_sale that stores a Sale
   stores it with subtotal = the sum of price x quantity over the cart,
   discount = the "discount" of the request body when that key is sent and
   the sum of the line discounts when it is not, and total = subtotal -
   discount. *)
C24_SaleTotals ==
    \A items \in StockCarts, choice \in SaleDiscounts, invoice \in Invoices :
        LET st == Run([db |-> db, p |-> DiscountSaleFrame(items, choice, 0, invoice)])
            subtotal == CartSubtotal(items)
            discount == IF choice[1] THEN choice[2] ELSE CartDiscounts(items)
        IN Len(st.db.sales) = Len(db.sales) + 1 =>
              LET t == st.db.sales[Len(st.db.sales)] IN
              /\ t.subtotal = subtotal
              /\ t.discount = discount
              /\ t.total = subtotal - discount

\* a completed sale of two lines without line discounts, stored with the
\* sale-level discount 1 that the request supplied
C24_Witness ==
    /\ last.op = "process_sale" /\ last.result = "ok"
    /\ Cardinality(ItemsOf(last.id)) = 2
    /\ \A n \in ItemsOf(last.id) : db.items[n].discount = 0 /\ db.items[n].quantity = 1
    /\ db.sales[last.id].subtotal = 2 * UnitPrice
    /\ db.sales[last.id].discount = 1
    /\ db.sales[last.id].total = 2 * UnitPrice - 1

-----------------------------------------------------------------------------
\* the net stock change the StockMovements record for product q
RECURSIVE NetMoved(_, _)
NetMoved(movements, q) ==
    IF movements = << >> THEN 0
    ELSE (IF Head(movements).product # q THEN 0
          ELSE IF Head(movements).movement_type = "in" THEN Head(movements).quantity
          ELSE 0 - Head(movements).quantity)
         + NetMoved(Tail(movements), q)

\* the StockMovements written since the two requests started
NewMovements == SubSeq(db.movements, Len(procs.base.movements) + 1, Len(db.movements))

(* C28: when two requests sent at once have both ended, for every product
   the change of its quantity caused by sales and refund approvals equals
   (sum of the 'in' movements) - (sum of the 'out' movements) they wrote,
   and the other columns a completed catalog edit wrote are not
   overwritten by a sale or an approval. *)
C28_StockLedger ==
    BothDone =>
      /\ (procs.f[1].op # "edit_product" /\ procs.f[2].op # "edit_product") =>
            \A q \in ProductIds :
                db.products[q] - procs.base.products[q] = NetMoved(NewMovements, q)
      /\ \A i \in {1, 2} :
            (/\ procs.f[i].op = "edit_product" /\ procs.f[i].result = "ok"
             /\ procs.f[3 - i].op \in {"process_sale", "approve"})
            => db.catalog[procs.f[i].product_id] = procs.f[i].name

-----------------------------------------------------------------------------
(* C29: StockMovement rows are append-only: no request, deleting a product
   included, modifies or removes a stored StockMovement row; the rows
   before a request are the first rows after it. *)
C29_MovementsAppendOnly ==
    [][/\ Len(db'.movements) >= Len(db.movements)
       /\ SubSeq(db'.movements, 1, Len(db.movements)) = db.movements]_vars

-----------------------------------------------------------------------------
(* C30: every stored SaleItem has quantity >= 1 and total = price x
   quantity - discount, whatever cart process_sale accepted: a line with
   quantity <= 0 is not stored. *)
C30_SaleItemWellFormed ==
    \A n \in 1..Len(db.items) :
        /\ db.items[n].quantity >= 1
        /\ db.items[n].total
             = db.items[n].price * db.items[n].quantity - db.items[n].discount

-----------------------------------------------------------------------------
\* the stored sales a customer typed on the refund form matches: the name
\* or the phone, whichever is given, compared without regard to case
Matching(name, phone) ==
    {k \in Sales :
        \/ name # "" /\ IExact(db.sales[k].customer_name, name)
        \/ phone # "" /\ IExact(db.sales[k].customer_phone, phone)}

(* C31: in every reachable state, a refund request created without a sale
   reference is linked to the most recent of the sales whose customer name
   or phone matches case-insensitively and whose amount_paid is at least
   the requested amount; when no matching sale has amount_paid >= amount
   the create is rejected and no RefundRequest is stored. *)
C31_ResolvedByCustomer ==
    \A actor \in Actors, customer \in Claimants, amount \in 1..(UnitPrice + 1) :
        LET st == Run([db |-> db,
                       p |-> CreateRefundFrame(actor, 0, 0, amount,
                                               customer[1], customer[2])])
            enough == {k \in Matching(customer[1], customer[2]) :
                          db.sales[k].amount_paid >= amount}
        IN IF enough = {}
           THEN st.db = db /\ st.p.result \notin {"ok", "error"}
           ELSE /\ Len(st.db.requests) = Len(db.requests) + 1
                /\ \E k \in enough :
                      /\ \A j \in enough : j <= k
                      /\ st.db.requests[Len(st.db.requests)].sale = k

-----------------------------------------------------------------------------
\* the PendingCart rows of a staff member in database d
PendingCartsOf(d, staff) ==
    {n \in 1..Len(d.pending_carts) : d.pending_carts[n] = staff}

(* C33: in every reachable state each staff member has at most one pending
   cart, and every process_sale that succeeds deletes the caller's pending
   cart, deletes the saved cart whose id it was sent only if that cart is
   the caller's, and leaves every pending and saved cart of another staff
   member in place. *)
C33_CartsPerStaff ==
    /\ \A staff \in Actors : Cardinality(PendingCartsOf(db, staff)) <= 1
    /\ \A actor \in Actors, items \in OneLineCarts, invoice \in Invoices :
         \A saved_cart_id \in 0..MaxStaged :
            LET st == Run([db |-> db,
                           p |-> [SaleFrame(items, SumPriceQty(items), invoice,
                                            <<"", "">>, saved_cart_id)
                                  EXCEPT !.actor = actor]])
            IN st.p.result = "ok" =>
                 /\ PendingCartsOf(st.db, actor) = {}
                 /\ \A other \in Actors \ {actor} :
                       Cardinality(PendingCartsOf(st.db, other))
                         = Cardinality(PendingCartsOf(db, other))
                 /\ st.db.saved_carts
                      = db.saved_carts \ {[id |-> saved_cart_id, staff |-> actor]}

\* after a sale one of the saved carts is gone while a pending cart and a
\* saved cart are still in place
C33_Witness ==
    /\ last.op = "process_sale" /\ last.result = "ok"
    /\ db.cart_seq >= 2
    /\ Cardinality(db.saved_carts) = db.cart_seq - 1
    /\ Len(db.pending_carts) = 1

-----------------------------------------------------------------------------
(* C34: when an edit or a decline of a refund request runs at the same
   time as an approve of the same request, no interleaving ends with a
   request whose Refund row and refund Payment exist while its status is
   pending or declined or its refund_processed flag is false. *)
C34_ApprovalNotUndone ==
    BothDone =>
        \A r \in Requests :
            (RefundRowsOf(r) # {} /\ RefundPaymentsOf(r) # {})
            => /\ db.requests[r].status = "approved"
               /\ db.requests[r].refund_processed

-----------------------------------------------------------------------------
(* C32: net_amount_paid of a sale equals max(sum of the amounts of all its
   Payments, refunds included as the negative rows they are, 0), and
   is_real_debtor is true exactly when that value is below the sale's
   total. *)
C32_NetAmountPaid ==
    \A k \in Sales :
        /\ NetAmountPaid(db.payments, k) = Max(SumAmounts(db.payments, k), 0)
        /\ IsRealDebtor(db, k) <=> (Max(SumAmounts(db.payments, k), 0) < db.sales[k].total)

\* two approvals at once have refunded more than was paid: the payments of
\* the sale sum to less than zero
C32_Witness ==
    /\ BothDone
    /\ \E k \in Sales :
          /\ SumAmounts(db.payments, k) < 0
          /\ \E n \in 1..Len(db.payments) :
                db.payments[n].sale = k /\ db.payments[n].payment_method = "refund"
          /\ \E n \in 1..Len(db.payments) :
                db.payments[n].sale = k /\ db.payments[n].payment_method # "refund"

-----------------------------------------------------------------------------
(* C36: every RefundRequest has amount > 0 and amount <= the ceiling it was
   created against (the item total or the sale's amount_paid, kept in
   original_amount) after any sequence of create and edit calls. *)
C36_AmountWithinCeiling ==
    \A r \in Requests :
        /\ db.requests[r].amount > 0
        /\ db.requests[r].amount <= db.requests[r].original_amount

-----------------------------------------------------------------------------
(* C37: the three records of an executed refund agree: for every approved
   RefundRequest r its Refund row has amount = r.amount and the sale of r,
   and there is exactly one Payment with reference REFUND-{r.id}, on that
   sale, with amount = -r.amount. *)
C37_RefundRecordsAgree ==
    \A r \in Requests :
        db.requests[r].status = "approved" =>
            /\ \A k \in RefundRowsOf(r) :
                  /\ db.refunds[k].amount = db.requests[r].amount
                  /\ db.refunds[k].sale = db.requests[r].sale
            /\ RefundRowsOf(r) # {}
            /\ Cardinality(RefundPaymentsOf(r)) = 1
            /\ \A k \in RefundPaymentsOf(r) :
                  /\ db.payments[k].sale = db.requests[r].sale
                  /\ db.payments[k].amount = 0 - db.requests[r].amount

-----------------------------------------------------------------------------
(* C38: no sale is ever overpaid: after any sequence of process_sale,
   record_payment and approve calls every Sale has amount_paid <= total. *)
C38_NeverOverpaid ==
    \A k \in Sales : db.sales[k].amount_paid <= db.sales[k].total

-----------------------------------------------------------------------------
(* C39: the two debtor views agree: in every reachable state a sale has
   balance > 0 (is_debtor) if and only if net_amount_paid < total
   (is_real_debtor). *)
C39_DebtorViewsAgree ==
    \A k \in Sales : IsDebtor(db.sales[k]) <=> IsRealDebtor(db, k)

-----------------------------------------------------------------------------
\* the units put back into stock by the refund movements of the requests
\* that reference SaleItem n
RECURSIVE Restocked(_, _)
Restocked(movements, n) ==
    IF movements = << >> THEN 0
    ELSE (IF /\ Head(movements).movement_type = "in"
             /\ Head(movements).reference.kind = "REFUND"
             /\ Head(movements).reference.n \in Requests
             /\ db.requests[Head(movements).reference.n].sale_item = n
          THEN Head(movements).quantity ELSE 0)
         + Restocked(Tail(movements), n)

(* C35: stock is never credited twice by refunds: for every SaleItem the
   units restocked by all the approved refund requests that reference it
   never exceed the quantity the item sold, also when several requests are
   created and approved for the same item. *)
C35_NoDoubleRestock ==
    \A n \in 1..Len(db.items) : Restocked(db.movements, n) <= db.items[n].quantity

=============================================================================
